---- MODULE Spec2Model ----
(***************************************************************************)
(* Model of the distance aggregation and ranking logic of the App          *)
(* component in src/frontend/src/App.tsx.                                  *)
(*                                                                         *)
(* Numbers.  The program computes with IEEE doubles.  The model computes   *)
(* in fixed point, truncating: distances are stored in micro-miles,        *)
(* durations in milli-minutes.  Raw matrix cells are metres and seconds.   *)
(* Absent values are negative sentinels, so that every scalar is an        *)
(* integer: Undefined (an absent optional field) and Null (a matrix cell   *)
(* the routing service reports as unreachable).  An optional object        *)
(* (distancesToPOIs) is a sequence of length at most one.                  *)
(*                                                                         *)
(* React.  Event handlers, the recalculation effect and the continuation   *)
(* of calculateDistances after its await are separate callbacks.  The      *)
(* effect of lines 473-475 is scheduled by a render in which one of its    *)
(* dependencies changed and is flushed before the next event is handled:   *)
(* effectPending records that it is scheduled, and no other callback runs  *)
(* while it is.  A reply of the routing service first settles the promise  *)
(* calculateDistances awaits (delivered) and the continuation of           *)
(* calculateDistances runs next.                                           *)
(*                                                                         *)
(* State.  inflight holds the calls of calculateDistances that are         *)
(* suspended at their await, oldest first, each with the lists its closure *)
(* captured and the arguments it gave to getMatrix.  requestCount counts   *)
(* the calls of getMatrix, up to the bound MaxRequests.  settled is what    *)
(* the callback that ran last let its caller and the console observe, if   *)
(* it brought a call of calculateDistances to its end: how the promise of  *)
(* the call settled and what the call wrote to console.error.  url is the  *)
(* state parameter of the address of the page, absent or the text that     *)
(* encodeStateToURL wrote.  The map has loaded before the first event of   *)
(* the user and is not moved: mapCenter is the centre it starts at and     *)
(* mapZoom the zoom.  selectedPlaceToStay, editingPOI and editingPlace are *)
(* the id of the selected place and of the entries whose editor is open,   *)
(* or Null.                                                                *)
(*                                                                         *)
(* Text.  A string is the sequence of its UTF-16 code units.  A JSON text  *)
(* is modelled by the value it denotes, in which an object has the keys    *)
(* that JSON.stringify writes; base64 text by the text it encodes.         *)
(***************************************************************************)
EXTENDS Integers, Sequences, FiniteSets, TLC

VARIABLES pointsOfInterest, placesToStay, distanceMode, transportProfile,
          nextId, effectPending, inflight, delivered, requestCount, settled,
          url, selectedPlaceToStay, editingPOI, editingPlace

vars == <<pointsOfInterest, placesToStay, distanceMode, transportProfile,
          nextId, effectPending, inflight, delivered, requestCount, settled,
          url, selectedPlaceToStay, editingPOI, editingPlace>>

---------------------------------------------------------------------------
(* Bounds of the model *)

(* The number of entries that the user gives a name, a note or a url of    *)
(* their own                                                               *)
MaxEdited == 1

(* The number of calls of getMatrix that are counted.  The user makes no    *)
(* further change to the lists or the profile once that many calls were    *)
(* made; the calls that the component makes by itself after that (when a   *)
(* reply changes the length of the list of places) are made and are not    *)
(* counted.                                                                *)
MaxRequests == 2

---------------------------------------------------------------------------
(* Values *)

Undefined == -2

Null == -1

DistanceCalculationMode == {"average", "cumulative"}

TransportProfile == {"walking", "driving-traffic", "cycling"}

(* The locations the user looks up, in the order of the searches: the k-th *)
(* entity that is added, a point of interest or a place to stay, is at the *)
(* k-th location.  With the service below the first two are 3000 m from    *)
(* each other, and the third is 1000 m from the first and 3000 m from the  *)
(* second.  They are named Zoo, Inn and Cafe with an acute accent (code    *)
(* unit 233).                                                              *)
Itinerary ==
  << [coordinates |-> [lat |-> 4, lon |-> 0], placeName |-> <<90, 111, 111>>],
     [coordinates |-> [lat |-> 2, lon |-> 5], placeName |-> <<73, 110, 110>>],
     [coordinates |-> [lat |-> 0, lon |-> 0],
      placeName |-> <<67, 97, 102, 233>>] >>

Abs(x) == IF x < 0 THEN -x ELSE x

Range(s) == { s[i] : i \in 1..Len(s) }

(* lines 484-491; note and url are absent *)
NewPointOfInterest(id, location) ==
  [id |-> id, name |-> location.placeName, location |-> location,
   note |-> <<>>, url |-> <<>>]

NewPlaceToStay_Zeroed(id, location) ==
  [id |-> id, name |-> location.placeName, location |-> location,
   note |-> <<>>, url |-> <<>>,
   averageDistance |-> 0, cumulativeDistance |-> 0,
   averageTime |-> 0, cumulativeTime |-> 0,
   distancesToPOIs |-> <<>>]

(* lines 511-518; note, url and the derived fields are absent *)
NewPlaceToStay(id, location) ==
  [id |-> id, name |-> location.placeName, location |-> location,
   note |-> <<>>, url |-> <<>>,
   averageDistance |-> Undefined, cumulativeDistance |-> Undefined,
   averageTime |-> Undefined, cumulativeTime |-> Undefined,
   distancesToPOIs |-> <<>>]

---------------------------------------------------------------------------
(* The routing-matrix service behind fetchMapBoxDirectionsMatrix.  A point *)
(* is <<lon, lat>>.  The service is deterministic in the geometry and the  *)
(* profile; what varies from reply to reply is the fault it injects.       *)

ProviderMetres(p, q) == 500 * Abs(p[1] - q[1]) + 250 * Abs(p[2] - q[2])

SecondsPerKm(profile) ==
  CASE profile = "walking" -> 60
    [] profile = "cycling" -> 40
    [] OTHER -> 20

ProviderSeconds(p, q, profile) ==
  (ProviderMetres(p, q) * SecondsPerKm(profile)) \div 1000

(* The faults of a reply to a request of k points: none, a body without    *)
(* matrices, or no route from the first point to the last (a null cell in  *)
(* both matrices; the first point is a place and the last a point of       *)
(* interest).                                                              *)
Faults(k) ==
  { <<"none", 0, 0>>, <<"nomatrix", 0, 0>>, <<"null", 1, k>> }

MatrixBody(points, profile, fault) ==
  LET k == Len(points)
      cell(i, j, v) ==
        IF fault[1] = "null" /\ fault[2] = i /\ fault[3] = j THEN Null ELSE v
  IN IF fault[1] = "nomatrix"
       THEN [distances |-> <<>>, durations |-> <<>>]
       ELSE [distances |->
               [i \in 1..k |->
                 [j \in 1..k |-> cell(i, j, ProviderMetres(points[i], points[j]))]],
             durations |->
               [i \in 1..k |->
                 [j \in 1..k |->
                   cell(i, j, ProviderSeconds(points[i], points[j], profile))]]]

(* Every reply the service can give to a request: a thrown transport       *)
(* error, or a status code with a body.                                    *)
Responses(request) ==
  { [threw |-> TRUE, statusCode |-> 0,
     body |-> [distances |-> <<>>, durations |-> <<>>]] }
  \cup
  { [threw |-> FALSE, statusCode |-> 500,
     body |-> [distances |-> <<>>, durations |-> <<>>]] }
  \cup
  { [threw |-> FALSE, statusCode |-> 200,
     body |-> MatrixBody(request.points, request.profile, f)]
      : f \in Faults(Len(request.points)) }

---------------------------------------------------------------------------
(* calculateDistances, lines 338-387 *)

EmptyInput_PlacesOnly(places, pois) == Len(places) = 0

(* line 339 *)
EmptyInput(places, pois) == Len(places) = 0 \/ Len(pois) = 0

allLocations_PoisFirst(places, pois) ==
  [j \in 1..Len(pois) |-> pois[j].location.coordinates]
    \o [i \in 1..Len(places) |-> places[i].location.coordinates]

(* lines 342-345 *)
allLocations(places, pois) ==
  [i \in 1..Len(places) |-> places[i].location.coordinates]
    \o [j \in 1..Len(pois) |-> pois[j].location.coordinates]

(* lines 29-37: the arguments of getMatrix *)
MatrixRequest(locations, profile) ==
  [profile |-> profile,
   annotations |-> <<"duration", "distance">>,
   points |-> [i \in 1..Len(locations) |-> <<locations[i].lon, locations[i].lat>>]]

matrixIndex_NoOffset(placesToStayCount, poiIndex) == poiIndex

(* line 363; indices are 1-based in the model *)
matrixIndex(placesToStayCount, poiIndex) == placesToStayCount + poiIndex

(* A null operand of / is coerced to 0 *)
ToNumber(cell) == IF cell = Null THEN 0 ELSE cell

Miles_TwoDigits(cell) == ToNumber(cell) * 620

(* line 365, in micro-miles *)
Miles(cell) == (ToNumber(cell) * 621371) \div 1000

(* line 366, in milli-minutes *)
Minutes(cell) == (ToNumber(cell) * 1000) \div 60

RECURSIVE SumOver(_, _)
SumOver(f, S) ==
  IF S = {} THEN 0
  ELSE LET x == CHOOSE y \in S : TRUE IN f[x] + SumOver(f, S \ {x})

(* lines 351-352 and 364-366: reading row placeIndex of an absent matrix   *)
(* throws a TypeError                                                      *)
ReadThrows(body, places) ==
  \E placeIndex \in 1..Len(places) :
    placeIndex > Len(body.distances) \/ placeIndex > Len(body.durations)

Average_OneTooMany(total, count) == total \div (count + 1)

(* lines 376 and 378 *)
Average(total, count) == total \div count

InitialDistancesToPOIs_CarriedOver(place) ==
  IF place.distancesToPOIs = <<>> THEN <<>> ELSE place.distancesToPOIs[1]

(* lines 356-358: the map of a place starts as the empty object *)
InitialDistancesToPOIs(place) == <<>>

UpdatedPlace_KeepsExisting(place, placeIndex, places, pois, body) ==
  LET n == Len(pois)
      distance == [poiIndex \in 1..n |->
        Miles(body.distances[placeIndex][matrixIndex(Len(places), poiIndex)])]
      duration == [poiIndex \in 1..n |->
        Minutes(body.durations[placeIndex][matrixIndex(Len(places), poiIndex)])]
      totalDistance == SumOver(distance, 1..n)
      totalTime == SumOver(duration, 1..n)
      keep(old, new) == IF old = Undefined THEN new ELSE old
  IN [place EXCEPT
        !.distancesToPOIs =
          << [id \in { pois[j].id : j \in 1..n } |->
               LET j == CHOOSE k \in 1..n : pois[k].id = id
               IN [distance |-> distance[j], duration |-> duration[j]]] >>,
        !.averageDistance = keep(@, Average(totalDistance, n)),
        !.cumulativeDistance = keep(@, totalDistance),
        !.averageTime = keep(@, Average(totalTime, n)),
        !.cumulativeTime = keep(@, totalTime)]

UpdatedPlace_MapOnly(place, placeIndex, places, pois, body) ==
  LET n == Len(pois)
      distance == [poiIndex \in 1..n |->
        Miles(body.distances[placeIndex][matrixIndex(Len(places), poiIndex)])]
      duration == [poiIndex \in 1..n |->
        Minutes(body.durations[placeIndex][matrixIndex(Len(places), poiIndex)])]
  IN [place EXCEPT
        !.distancesToPOIs =
          << [id \in { pois[j].id : j \in 1..n } |->
               LET j == CHOOSE k \in 1..n : pois[k].id = id
               IN [distance |-> distance[j], duration |-> duration[j]]] >>]

(* lines 355-381 *)
UpdatedPlace(place, placeIndex, places, pois, body) ==
  LET n == Len(pois)
      initial == InitialDistancesToPOIs(place)
      distance == [poiIndex \in 1..n |->
        Miles(body.distances[placeIndex][matrixIndex(Len(places), poiIndex)])]
      duration == [poiIndex \in 1..n |->
        Minutes(body.durations[placeIndex][matrixIndex(Len(places), poiIndex)])]
      (* a later poi with the same id overwrites the entry of an earlier *)
      last(id) == CHOOSE j \in 1..n :
        pois[j].id = id /\ \A k \in (j + 1)..n : pois[k].id # id
      totalDistance == SumOver(distance, 1..n)
      totalTime == SumOver(duration, 1..n)
  IN [place EXCEPT
        !.distancesToPOIs =
          << [id \in (DOMAIN initial) \cup { pois[j].id : j \in 1..n } |->
               IF id \in { pois[j].id : j \in 1..n }
                 THEN [distance |-> distance[last(id)],
                       duration |-> duration[last(id)]]
                 ELSE initial[id]] >>,
        !.averageDistance = Average(totalDistance, n),
        !.cumulativeDistance = totalDistance,
        !.averageTime = Average(totalTime, n),
        !.cumulativeTime = totalTime]

updatedPlacesToStay(places, pois, body) ==
  [placeIndex \in 1..Len(places) |->
    UpdatedPlace(places[placeIndex], placeIndex, places, pois, body)]

---------------------------------------------------------------------------
(* PlacesToStayDisplay, lines 779-791 *)

(* `x || 0`: an absent value, and 0 itself, order as 0 *)
OrZero(x) == IF x = Undefined THEN 0 ELSE x

(* lines 782-789 *)
SortDistance(place, mode) ==
  IF mode = "average"
    THEN OrZero(place.averageDistance)
    ELSE OrZero(place.cumulativeDistance)

Compare_Descending(a, b, mode) == SortDistance(b, mode) - SortDistance(a, mode)

(* line 790: the comparator *)
Compare(a, b, mode) == SortDistance(a, mode) - SortDistance(b, mode)

RECURSIVE Insert_Unstable(_, _, _)
Insert_Unstable(sorted, x, mode) ==
  IF sorted = <<>> THEN <<x>>
  ELSE IF Compare(sorted[Len(sorted)], x, mode) >= 0
    THEN Append(Insert_Unstable(SubSeq(sorted, 1, Len(sorted) - 1), x, mode),
                sorted[Len(sorted)])
    ELSE Append(sorted, x)

(* Array.prototype.sort is a stable sort: an element moves left only past  *)
(* elements that compare greater than it.                                  *)
RECURSIVE Insert(_, _, _)
Insert(sorted, x, mode) ==
  IF sorted = <<>> THEN <<x>>
  ELSE IF Compare(sorted[Len(sorted)], x, mode) > 0
    THEN Append(Insert(SubSeq(sorted, 1, Len(sorted) - 1), x, mode),
                sorted[Len(sorted)])
    ELSE Append(sorted, x)

RECURSIVE Sort(_, _)
Sort(places, mode) ==
  IF places = <<>> THEN <<>>
  ELSE Insert(Sort(SubSeq(places, 1, Len(places) - 1), mode),
              places[Len(places)], mode)

PlacesToStayDisplay_SortsInPlace(places, mode) ==
  [stored |-> Sort(places, mode), displayed |-> Sort(places, mode)]

(* line 781: a render of the list sorts a copy of the array it is given.   *)
(* stored is what the array of the state holds once the render is done,    *)
(* displayed the order in which the places are shown.                      *)
PlacesToStayDisplay(places, mode) ==
  [stored |-> places, displayed |-> Sort(places, mode)]

(* line 781 *)
sortedPlacesToStay == PlacesToStayDisplay(placesToStay, distanceMode).displayed

---------------------------------------------------------------------------
(* The state in the address of the page, lines 389-454 *)

(* lines 76-83 *)
AppState(pois, places, mode, profile, center, zoom) ==
  [pointsOfInterest |-> pois, placesToStay |-> places, distanceMode |-> mode,
   transportProfile |-> profile, mapCenter |-> center, mapZoom |-> zoom]

(* lines 46-65: the optional properties of an entry *)
OptionalKeys ==
  {"note", "url", "averageDistance", "cumulativeDistance", "averageTime",
   "cumulativeTime", "distancesToPOIs"}

(* The optional properties whose value, a string or an object, is held in  *)
(* a sequence of length at most one                                        *)
BoxedKeys == {"note", "url", "distancesToPOIs"}

PoiKeys == {"id", "name", "location", "note", "url"}

PlaceKeys == PoiKeys \cup OptionalKeys

IsUndefined(object, key) ==
  IF key \in BoxedKeys
    THEN object[key] = <<>>
    ELSE object[key] = Undefined

(* JSON.stringify of an object: a property that is undefined is not        *)
(* written                                                                 *)
StringifyPlace(place) ==
  [key \in { k \in DOMAIN place :
               ~(k \in OptionalKeys /\ IsUndefined(place, k)) }
    |-> IF key \in BoxedKeys THEN place[key][1] ELSE place[key]]

(* line 392 *)
JsonStringify(state) ==
  [state EXCEPT
     !.pointsOfInterest = [i \in 1..Len(@) |-> StringifyPlace(@[i])],
     !.placesToStay = [i \in 1..Len(@) |-> StringifyPlace(@[i])]]

(* A property of a parsed object: undefined if the text has no such key *)
Property(object, key) ==
  IF key \in DOMAIN object
    THEN (IF key \in BoxedKeys THEN << object[key] >> ELSE object[key])
    ELSE (IF key \in BoxedKeys THEN <<>> ELSE Undefined)

(* line 409 *)
JsonParse(text) ==
  [text EXCEPT
     !.pointsOfInterest =
       [i \in 1..Len(@) |-> [key \in PoiKeys |-> Property(@[i], key)]],
     !.placesToStay =
       [i \in 1..Len(@) |-> [key \in PlaceKeys |-> Property(@[i], key)]]]

(* The strings of an entry of a JSON text of the state *)
StringsOfEntry(entry) ==
  {entry.name, entry.location.placeName}
    \cup { entry[key] : key \in {"note", "url"} \cap DOMAIN entry }

(* The strings of a JSON text of the state, other than its ASCII keys and  *)
(* enumeration values                                                      *)
StringsOf(text) ==
  UNION { StringsOfEntry(text.pointsOfInterest[i]) :
            i \in 1..Len(text.pointsOfInterest) }
    \cup UNION { StringsOfEntry(text.placesToStay[i]) :
                   i \in 1..Len(text.placesToStay) }

Latin1(string) == \A i \in 1..Len(string) : string[i] <= 255

(* line 393: btoa throws InvalidCharacterError on a code unit above 255;   *)
(* the result is absent then                                               *)
Btoa(text) ==
  IF \A string \in StringsOf(text) : Latin1(string)
    THEN << [base64 |-> text] >>
    ELSE <<>>

(* line 408 *)
Atob(base64String) == base64String.base64

(* lines 390-400: the state parameter after encodeStateToURL(state); the   *)
(* catch clause logs the error of btoa and leaves the address as it was    *)
encodeStateToURL(state, address) ==
  LET base64String == Btoa(JsonStringify(state))
  IN IF base64String = <<>> THEN address ELSE base64String

(* lines 402-415: the state of the address, or none (null) *)
decodeStateFromURL(address) ==
  IF address = <<>> THEN <<>> ELSE << JsonParse(Atob(address[1])) >>

(* lines 430-454: the state parameter after saveStateToURL() in a render   *)
(* with these values                                                       *)
saveStateToURL(pois, places, mode, profile, center, zoom, address) ==
  IF Len(pois) = 0 /\ Len(places) = 0 /\ center = <<>>
    THEN address
    ELSE encodeStateToURL(AppState(pois, places, mode, profile, center, zoom),
                          address)

(* lines 1094-1108: the centre of the map, set when the map has loaded *)
mapCenter == << [lng |-> -106, lat |-> 35] >>

(* lines 1090 and 1108: the zoom of the map, set when the map has loaded *)
mapZoom == << 9 >>

(* lines 457-470: the save effect after a render with these values: it     *)
(* returns at once while an editor is open                                 *)
SaveEffect(pois, places, mode, profile, poiEdited, placeEdited) ==
  IF poiEdited # Null \/ placeEdited # Null
    THEN url
    ELSE saveStateToURL(pois, places, mode, profile, mapCenter, mapZoom, url)

---------------------------------------------------------------------------
(* State machine *)

(* lines 93-100, and the save effect that follows the load of the map *)
Init ==
  /\ pointsOfInterest = <<>>
  /\ placesToStay = <<>>
  /\ distanceMode = "average"
  /\ transportProfile = "walking"
  /\ nextId = 1
  /\ effectPending = TRUE
  /\ inflight = <<>>
  /\ requestCount = 0
  /\ delivered = <<>>
  /\ settled = <<>>
  /\ url = saveStateToURL(<<>>, <<>>, "average", "walking", mapCenter,
                          mapZoom, <<>>)
  /\ selectedPlaceToStay = Null
  /\ editingPOI = Null
  /\ editingPlace = Null

Idle_UnlessFailed ==
  /\ ~effectPending
  /\ delivered = <<>>
  /\ ~(settled # <<>> /\ settled[1].consoleError # "none")

(* No callback is scheduled ahead of the next event *)
Idle == ~effectPending /\ delivered = <<>>

(* The user changes the lists and the profile within the bound *)
CanChange == Idle /\ requestCount < MaxRequests

DepsChanged_WithoutProfile(pois, places, profile, mode) ==
  \/ Len(pois) # Len(pointsOfInterest)
  \/ Len(places) # Len(placesToStay)

DepsChanged_WithMode(pois, places, profile, mode) ==
  \/ Len(pois) # Len(pointsOfInterest)
  \/ Len(places) # Len(placesToStay)
  \/ profile # transportProfile
  \/ mode # distanceMode

(* lines 472-475: the dependencies of the recalculation effect, compared   *)
(* with their values in the previous render                                *)
DepsChanged(pois, places, profile, mode) ==
  \/ Len(pois) # Len(pointsOfInterest)
  \/ Len(places) # Len(placesToStay)
  \/ profile # transportProfile

(* A render with new values of the three states, the mode it has and      *)
(* these editors open, and the save effect of lines 457-470 that follows   *)
(* it                                                                      *)
RenderWhileEditing(pois, places, profile, poiEdited, placeEdited) ==
  /\ pointsOfInterest' = pois
  /\ placesToStay' = PlacesToStayDisplay(places, distanceMode).stored
  /\ transportProfile' = profile
  /\ effectPending' = DepsChanged(pois, places, profile, distanceMode)
  /\ url' = SaveEffect(pois, places, distanceMode, profile, poiEdited,
                       placeEdited)

(* A render by a callback that opens and closes no editor *)
Render(pois, places, profile) ==
  RenderWhileEditing(pois, places, profile, editingPOI, editingPlace)

(* lines 89-91, 1452-1465: the location the search box holds, if any *)
searchedLocation == { Itinerary[k] : k \in {nextId} \cap DOMAIN Itinerary }

(* lines 477-502 *)
AddPointOfInterest(location) ==
  /\ CanChange
  /\ Render(Append(pointsOfInterest, NewPointOfInterest(nextId, location)),
            placesToStay, transportProfile)
  /\ nextId' = nextId + 1
  /\ settled' = <<>>
  /\ UNCHANGED <<distanceMode, inflight, delivered, requestCount>>
  /\ UNCHANGED <<selectedPlaceToStay, editingPOI, editingPlace>>

(* lines 504-529 *)
AddPlaceToStay(location) ==
  /\ CanChange
  /\ Render(pointsOfInterest,
            Append(placesToStay, NewPlaceToStay(nextId, location)),
            transportProfile)
  /\ nextId' = nextId + 1
  /\ settled' = <<>>
  /\ UNCHANGED <<distanceMode, inflight, delivered, requestCount>>
  /\ UNCHANGED <<selectedPlaceToStay, editingPOI, editingPlace>>

removePOI_WithoutConfirm(id, confirmed) ==
  /\ CanChange
  /\ \E i \in 1..Len(pointsOfInterest) : pointsOfInterest[i].id = id
  /\ LET keep(poi) == poi.id # id
     IN Render(SelectSeq(pointsOfInterest, keep), placesToStay,
               transportProfile)
  /\ settled' = <<>>
  /\ UNCHANGED <<distanceMode, nextId, inflight, delivered, requestCount>>
  /\ UNCHANGED <<selectedPlaceToStay, editingPOI, editingPlace>>

(* lines 301-307 *)
removePOI(id, confirmed) ==
  /\ CanChange
  /\ \E i \in 1..Len(pointsOfInterest) : pointsOfInterest[i].id = id
  /\ IF confirmed
       THEN /\ LET keep(poi) == poi.id # id
               IN Render(SelectSeq(pointsOfInterest, keep), placesToStay,
                         transportProfile)
            /\ settled' = <<>>
       ELSE UNCHANGED <<pointsOfInterest, placesToStay, transportProfile,
                        effectPending, settled, url>>
  /\ UNCHANGED <<distanceMode, nextId, inflight, delivered, requestCount>>
  /\ UNCHANGED <<selectedPlaceToStay, editingPOI, editingPlace>>

(* `{ ...object, ...updates }` *)
Merge(object, updates) ==
  [key \in DOMAIN object |->
    IF key \in DOMAIN updates THEN updates[key] ELSE object[key]]

MapUpdate_All(prev, id, updates) ==
  [i \in 1..Len(prev) |-> Merge(prev[i], updates)]

(* lines 311-313 and 320-324: `prev.map(...)` *)
MapUpdate(prev, id, updates) ==
  [i \in 1..Len(prev) |->
    IF prev[i].id = id THEN Merge(prev[i], updates) ELSE prev[i]]

(* lines 309-316, called by the Save button of lines 733-742 *)
updatePOI(id, updates) ==
  /\ Idle
  /\ \E i \in 1..Len(pointsOfInterest) : pointsOfInterest[i].id = id
  /\ Render(MapUpdate(pointsOfInterest, id, updates), placesToStay,
            transportProfile)
  /\ settled' = <<>>
  /\ UNCHANGED <<distanceMode, nextId, inflight, delivered, requestCount>>
  /\ UNCHANGED <<selectedPlaceToStay, editingPOI, editingPlace>>

(* lines 318-327, called by the Save button of lines 1039-1048 *)
updatePlaceToStay(id, updates) ==
  /\ Idle
  /\ \E i \in 1..Len(placesToStay) : placesToStay[i].id = id
  /\ Render(pointsOfInterest, MapUpdate(placesToStay, id, updates),
            transportProfile)
  /\ settled' = <<>>
  /\ UNCHANGED <<distanceMode, nextId, inflight, delivered, requestCount>>
  /\ UNCHANGED <<selectedPlaceToStay, editingPOI, editingPlace>>

(* lines 329-336 *)
removePlaceToStay(id, confirmed) ==
  /\ CanChange
  /\ \E i \in 1..Len(placesToStay) : placesToStay[i].id = id
  /\ IF confirmed
       THEN /\ LET keep(place) == place.id # id
               IN Render(pointsOfInterest, SelectSeq(placesToStay, keep),
                         transportProfile)
            /\ selectedPlaceToStay' =
                 (IF selectedPlaceToStay = id THEN Null ELSE selectedPlaceToStay)
            /\ settled' = <<>>
       ELSE UNCHANGED <<pointsOfInterest, placesToStay, transportProfile,
                        effectPending, settled, url, selectedPlaceToStay>>
  /\ UNCHANGED <<distanceMode, nextId, inflight, delivered, requestCount,
                 editingPOI, editingPlace>>

(* lines 818-822 *)
setTransportProfile(profile) ==
  /\ CanChange
  /\ profile # transportProfile
  /\ Render(pointsOfInterest, placesToStay, profile)
  /\ settled' = <<>>
  /\ UNCHANGED <<distanceMode, nextId, inflight, delivered, requestCount>>
  /\ UNCHANGED <<selectedPlaceToStay, editingPOI, editingPlace>>

(* lines 805-809 *)
setDistanceMode(mode) ==
  /\ Idle
  /\ mode # distanceMode
  /\ distanceMode' = mode
  /\ placesToStay' = PlacesToStayDisplay(placesToStay, mode).stored
  /\ effectPending' =
       DepsChanged(pointsOfInterest, placesToStay, transportProfile, mode)
  /\ url' = SaveEffect(pointsOfInterest, placesToStay, mode,
                       transportProfile, editingPOI, editingPlace)
  /\ settled' = <<>>
  /\ UNCHANGED <<pointsOfInterest, transportProfile, nextId, inflight,
                 delivered, requestCount>>
  /\ UNCHANGED <<selectedPlaceToStay, editingPOI, editingPlace>>

(* The counter of the calls of getMatrix stops at the bound *)
Counted(n) == IF n < MaxRequests THEN n ELSE MaxRequests

(* lines 338-350: calculateDistances up to its await.  The call closes     *)
(* over the lists and the profile of the render that scheduled it.         *)
calculateDistances ==
  IF EmptyInput(placesToStay, pointsOfInterest)
    THEN /\ settled' = << [promise |-> "fulfilled", consoleError |-> "none"] >>
         /\ UNCHANGED <<inflight, requestCount>>
    ELSE /\ settled' = <<>>
         /\ requestCount' = Counted(requestCount + 1)
         /\ inflight' = Append(inflight,
              [places |-> placesToStay,
               pois |-> pointsOfInterest,
               request |-> MatrixRequest(
                 allLocations(placesToStay, pointsOfInterest),
                 transportProfile)])

(* lines 472-475 *)
RecalculateEffect ==
  /\ effectPending
  /\ calculateDistances
  /\ effectPending' = FALSE
  /\ UNCHANGED <<pointsOfInterest, placesToStay, distanceMode,
                 transportProfile, nextId, delivered, url>>
  /\ UNCHANGED <<selectedPlaceToStay, editingPOI, editingPlace>>

RemoveAt(s, i) == SubSeq(s, 1, i - 1) \o SubSeq(s, i + 1, Len(s))

(* lines 29-37: the routing service answers one of the pending requests *)
ProviderReplies(i, response) ==
  /\ Idle
  /\ i \in 1..Len(inflight)
  /\ delivered' = << [call |-> inflight[i], response |-> response] >>
  /\ inflight' = RemoveAt(inflight, i)
  /\ settled' = <<>>
  /\ UNCHANGED <<pointsOfInterest, placesToStay, distanceMode,
                 transportProfile, nextId, effectPending, requestCount, url>>
  /\ UNCHANGED <<selectedPlaceToStay, editingPOI, editingPlace>>

(* lines 29-43 and 351-366: what the try block throws when it is given     *)
(* this response, if anything: the rejection of send(), the Error of line  *)
(* 39, or the TypeError of reading a row of an absent matrix               *)
ThrownError(call, response) ==
  CASE response.threw -> "send() rejected"
    [] ~response.threw /\ response.statusCode # 200 ->
         "HTTP error from MapBox! status"
    [] ~response.threw /\ response.statusCode = 200
         /\ ReadThrows(response.body, call.places) -> "TypeError"
    [] OTHER -> "none"

CatchError_Silent(error) ==
  [promise |-> "fulfilled", consoleError |-> "none", setPlacesToStay |-> <<>>]

(* lines 384-386: the catch clause logs the error and returns, so the      *)
(* promise of calculateDistances is fulfilled and no state is set          *)
CatchError(error) ==
  [promise |-> "fulfilled", consoleError |-> error, setPlacesToStay |-> <<>>]

Completion_ResetOnError(call, response) ==
  IF ThrownError(call, response) # "none"
    THEN [promise |-> "fulfilled",
          consoleError |-> ThrownError(call, response),
          setPlacesToStay |->
            << [i \in 1..Len(call.places) |->
                 NewPlaceToStay(call.places[i].id, call.places[i].location)] >>]
    ELSE [promise |-> "fulfilled", consoleError |-> "none",
          setPlacesToStay |->
            << updatedPlacesToStay(call.places, call.pois, response.body) >>]

Completion_OnlyIfCurrent(call, response) ==
  IF ThrownError(call, response) # "none"
    THEN CatchError(ThrownError(call, response))
    ELSE [promise |-> "fulfilled", consoleError |-> "none",
          setPlacesToStay |->
            IF /\ call.request.profile = transportProfile
               /\ call.pois = pointsOfInterest
               /\ Len(call.places) = Len(placesToStay)
              THEN << updatedPlacesToStay(call.places, call.pois, response.body) >>
              ELSE <<>>]

(* lines 341-387: how a call of calculateDistances that is given this      *)
(* response ends: the settlement of its promise, what it wrote to          *)
(* console.error and the argument of its setPlacesToStay, if it calls it   *)
Completion(call, response) ==
  IF ThrownError(call, response) # "none"
    THEN CatchError(ThrownError(call, response))
    ELSE [promise |-> "fulfilled", consoleError |-> "none",
          setPlacesToStay |->
            << updatedPlacesToStay(call.places, call.pois, response.body) >>]

ResumeCalculateDistances_Retries ==
  /\ delivered # <<>>
  /\ LET completion == Completion(delivered[1].call, delivered[1].response)
     IN /\ settled' = << [promise |-> completion.promise,
                           consoleError |-> completion.consoleError] >>
        /\ IF completion.setPlacesToStay = <<>>
               THEN /\ inflight' = Append(inflight, delivered[1].call)
                    /\ UNCHANGED <<pointsOfInterest, placesToStay,
                                   transportProfile, effectPending, url>>
               ELSE /\ Render(pointsOfInterest, completion.setPlacesToStay[1],
                              transportProfile)
                    /\ inflight' = inflight
  /\ delivered' = <<>>
  /\ UNCHANGED <<distanceMode, nextId, requestCount>>
  /\ UNCHANGED <<selectedPlaceToStay, editingPOI, editingPlace>>

(* lines 351-383: calculateDistances after its await *)
ResumeCalculateDistances ==
  /\ delivered # <<>>
  /\ LET completion == Completion(delivered[1].call, delivered[1].response)
     IN /\ settled' = << [promise |-> completion.promise,
                           consoleError |-> completion.consoleError] >>
        /\ IF completion.setPlacesToStay = <<>>
               THEN UNCHANGED <<pointsOfInterest, placesToStay,
                                transportProfile, effectPending, url>>
               ELSE Render(pointsOfInterest, completion.setPlacesToStay[1],
                           transportProfile)
  /\ delivered' = <<>>
  /\ UNCHANGED <<distanceMode, nextId, inflight, requestCount>>
  /\ UNCHANGED <<selectedPlaceToStay, editingPOI, editingPlace>>

(* A place the user clicks on the map: it is where the next search would   *)
(* be, and its name has code units above 255 (L with stroke, o with acute, *)
(* d, z with acute)                                                        *)
clickedPlace ==
  { [lng |-> location.coordinates.lon, lat |-> location.coordinates.lat,
     placeName |-> <<321, 243, 100, 378>>] : location \in searchedLocation }

(* lines 139-172 *)
addPlaceFromMapClick(lng, lat, placeName, type) ==
  LET newLocation == [coordinates |-> [lat |-> lat, lon |-> lng],
                      placeName |-> placeName]
  IN /\ CanChange
     /\ IF type = "poi"
          THEN Render(Append(pointsOfInterest,
                             NewPointOfInterest(nextId, newLocation)),
                      placesToStay, transportProfile)
          ELSE Render(pointsOfInterest,
                      Append(placesToStay, NewPlaceToStay(nextId, newLocation)),
                      transportProfile)
     /\ nextId' = nextId + 1
     /\ settled' = <<>>
     /\ UNCHANGED <<distanceMode, inflight, delivered, requestCount>>
     /\ UNCHANGED <<selectedPlaceToStay, editingPOI, editingPlace>>

(* lines 418-427: the four states after the load effect of a page opened   *)
(* at this address; without a state in the address they are the initial    *)
(* values of lines 93-100                                                  *)
LoadedState(address) ==
  LET urlState == decodeStateFromURL(address)
  IN IF urlState = <<>>
       THEN [pointsOfInterest |-> <<>>, placesToStay |-> <<>>,
             distanceMode |-> "average", transportProfile |-> "walking"]
       ELSE [pointsOfInterest |-> urlState[1].pointsOfInterest,
             placesToStay |-> urlState[1].placesToStay,
             distanceMode |-> urlState[1].distanceMode,
             transportProfile |-> urlState[1].transportProfile]

(* lines 93-100 and 418-427: the page is loaded anew.  The component       *)
(* starts from its initial state, the calls of the page that is left are   *)
(* gone, the load effect sets the four states from the address if it holds *)
(* a state, the map loads, and the save effect and the recalculation       *)
(* effect follow the render of the loaded state.                           *)
Mount ==
  /\ CanChange
  /\ LET pois == LoadedState(url).pointsOfInterest
         places == LoadedState(url).placesToStay
         mode == LoadedState(url).distanceMode
         profile == LoadedState(url).transportProfile
     IN /\ pointsOfInterest' = pois
        /\ placesToStay' = PlacesToStayDisplay(places, mode).stored
        /\ distanceMode' = mode
        /\ transportProfile' = profile
        /\ url' = saveStateToURL(pois, places, mode, profile, mapCenter,
                                 mapZoom, url)
  /\ selectedPlaceToStay' = Null
  /\ editingPOI' = Null
  /\ editingPlace' = Null
  /\ effectPending' = TRUE
  /\ inflight' = <<>>
  /\ delivered' = <<>>
  /\ settled' = <<>>
  /\ UNCHANGED <<nextId, requestCount>>

(* lines 856-858 and 1237-1239: a click on a place of the displayed list   *)
(* or on its marker.  The flight of the map to the place is not modelled.  *)
selectPlaceToStay(id) ==
  /\ Idle
  /\ \E i \in 1..Len(sortedPlacesToStay) : sortedPlacesToStay[i].id = id
  /\ selectedPlaceToStay' = id
  /\ settled' = <<>>
  /\ UNCHANGED <<pointsOfInterest, placesToStay, distanceMode,
                 transportProfile, nextId, effectPending, inflight, delivered,
                 requestCount, url, editingPOI, editingPlace>>

(* A render in which only the open editors changed, and its save effect *)
RenderEditors(poiEdited, placeEdited) ==
  /\ editingPOI' = poiEdited
  /\ editingPlace' = placeEdited
  /\ url' = SaveEffect(pointsOfInterest, placesToStay, distanceMode,
                       transportProfile, poiEdited, placeEdited)
  /\ settled' = <<>>
  /\ UNCHANGED <<pointsOfInterest, placesToStay, distanceMode,
                 transportProfile, nextId, effectPending, inflight, delivered,
                 requestCount, selectedPlaceToStay>>

(* lines 603-620: the button of a point of interest that reads Edit, or    *)
(* Cancel when the editor of that point is open                            *)
toggleEditingPOI(id) ==
  /\ Idle
  /\ \E i \in 1..Len(pointsOfInterest) : pointsOfInterest[i].id = id
  /\ RenderEditors(IF editingPOI = id THEN Null ELSE id, editingPlace)

(* lines 909-926: the same button of a place to stay *)
toggleEditingPlace(id) ==
  /\ Idle
  /\ \E i \in 1..Len(placesToStay) : placesToStay[i].id = id
  /\ RenderEditors(editingPOI, IF editingPlace = id THEN Null ELSE id)

(* lines 754-757: the Cancel button of the open editor of a point of       *)
(* interest                                                                *)
cancelEditingPOI(id) ==
  /\ Idle
  /\ editingPOI = id
  /\ \E i \in 1..Len(pointsOfInterest) : pointsOfInterest[i].id = id
  /\ RenderEditors(Null, editingPlace)

(* lines 1060-1063: the Cancel button of the open editor of a place *)
cancelEditingPlace(id) ==
  /\ Idle
  /\ editingPlace = id
  /\ \E i \in 1..Len(placesToStay) : placesToStay[i].id = id
  /\ RenderEditors(editingPOI, Null)

(* `value || undefined` of a text field *)
OrUndefined(value) == IF value = <<>> THEN <<>> ELSE << value >>

(* lines 735-740 and 1041-1046: the updates the Save button builds from    *)
(* the three text fields of the editor                                     *)
EditorUpdates(entry, fields) ==
  [name |-> IF fields.name = <<>> THEN entry.name ELSE fields.name,
   note |-> OrUndefined(fields.note),
   url |-> OrUndefined(fields.url)]

(* lines 733-742: the Save button of the open editor of a point of         *)
(* interest: updatePOI and setEditingPOI(null), in one render              *)
savePOI(id, fields) ==
  /\ Idle
  /\ editingPOI = id
  /\ \E i \in 1..Len(pointsOfInterest) :
       /\ pointsOfInterest[i].id = id
       /\ RenderWhileEditing(
            MapUpdate(pointsOfInterest, id,
                      EditorUpdates(pointsOfInterest[i], fields)),
            placesToStay, transportProfile, Null, editingPlace)
  /\ editingPOI' = Null
  /\ settled' = <<>>
  /\ UNCHANGED <<distanceMode, nextId, inflight, delivered, requestCount,
                 selectedPlaceToStay, editingPlace>>

(* lines 1039-1048: the Save button of the open editor of a place *)
savePlace(id, fields) ==
  /\ Idle
  /\ editingPlace = id
  /\ \E i \in 1..Len(placesToStay) :
       /\ placesToStay[i].id = id
       /\ RenderWhileEditing(
            pointsOfInterest,
            MapUpdate(placesToStay, id,
                      EditorUpdates(placesToStay[i], fields)),
            transportProfile, editingPOI, Null)
  /\ editingPlace' = Null
  /\ settled' = <<>>
  /\ UNCHANGED <<distanceMode, nextId, inflight, delivered, requestCount,
                 selectedPlaceToStay, editingPOI>>

(* lines 733-742 and 1039-1048: what the Save button of the editor of an   *)
(* entry passes to the update; the user saves the text the editor opened   *)
(* with                                                                    *)
EditorOf(entry) ==
  EditorUpdates(entry,
    [name |-> entry.name,
     note |-> IF entry.note = <<>> THEN <<>> ELSE entry.note[1],
     url |-> IF entry.url = <<>> THEN <<>> ELSE entry.url[1]])

Next ==
  \/ \E c \in searchedLocation : AddPointOfInterest(c)
  \/ \E c \in searchedLocation : AddPlaceToStay(c)
  \/ \E id \in 1..Len(Itinerary), confirmed \in BOOLEAN : removePOI(id, confirmed)
  \/ \E id \in 1..Len(Itinerary), confirmed \in BOOLEAN : removePlaceToStay(id, confirmed)
  \/ \E poi \in Range(pointsOfInterest) : updatePOI(poi.id, EditorOf(poi))
  \/ \E place \in Range(placesToStay) :
       updatePlaceToStay(place.id, EditorOf(place))
  \/ \E p \in TransportProfile : setTransportProfile(p)
  \/ \E m \in DistanceCalculationMode : setDistanceMode(m)
  \/ RecalculateEffect
  \/ \E i \in 1..Len(inflight) : \E response \in Responses(inflight[i].request) :
       ProviderReplies(i, response)
  \/ ResumeCalculateDistances

Spec == Init /\ [][Next]_vars

(* A step of the component itself: an effect, an answer of the routing     *)
(* service or the continuation of a call                                   *)
SystemStep ==
  \/ RecalculateEffect
  \/ \E i \in 1..Len(inflight) : \E response \in Responses(inflight[i].request) :
       ProviderReplies(i, response)
  \/ ResumeCalculateDistances

(* React runs a scheduled effect and the continuation of a settled await,  *)
(* and every request to the routing service is answered or fails           *)
FairSpec ==
  /\ Spec
  /\ WF_vars(RecalculateEffect)
  /\ WF_vars(ResumeCalculateDistances)
  /\ WF_vars(\E i \in 1..Len(inflight) :
               \E response \in Responses(inflight[i].request) :
                 ProviderReplies(i, response))

(* The session with clicks on the map and reloads of the page *)
UrlNext ==
  \/ Next
  \/ \E c \in clickedPlace, type \in {"poi", "stay"} :
       addPlaceFromMapClick(c.lng, c.lat, c.placeName, type)
  \/ Mount

UrlSpec == Init /\ [][UrlNext]_vars

(* "http://", "https://" and "a.io" *)
Http == <<104, 116, 116, 112, 58, 47, 47>>

Https == <<104, 116, 116, 112, 115, 58, 47, 47>>

Host == <<97, 46, 105, 111>>

(* String.prototype.startsWith *)
StartsWith(string, prefix) ==
  /\ Len(string) >= Len(prefix)
  /\ SubSeq(string, 1, Len(prefix)) = prefix

ensureHttpsProtocol_AlwaysPrefixes(urlText) ==
  IF urlText = <<>> THEN urlText ELSE Https \o urlText

(* lines 130-136 *)
ensureHttpsProtocol(urlText) ==
  IF urlText = <<>>
    THEN urlText
    ELSE IF StartsWith(urlText, Http) \/ StartsWith(urlText, Https)
      THEN urlText
      ELSE Https \o urlText

(* lines 586-590 and 892-896: the href of the link of an entry, if the     *)
(* entry is shown with one                                                 *)
Href(entry) ==
  IF entry.url = <<>> \/ entry.url = << <<>> >>
    THEN <<>>
    ELSE << ensureHttpsProtocol(entry.url[1]) >>

(* What the user leaves in the three text fields of an editor before Save: *)
(* everything cleared; the name Spa, the note ok and a url with no scheme; *)
(* or a note that is a black star (code unit 9733)                         *)
EditorTexts ==
  { [name |-> <<>>, note |-> <<>>, url |-> <<>>],
    [name |-> <<83, 112, 97>>, note |-> <<111, 107>>, url |-> Host],
    [name |-> <<>>, note |-> <<9733>>, url |-> <<>>] }

(* The entry has a name, a note or a url that the user gave it *)
Edited(entry) ==
  \/ entry.name # entry.location.placeName
  \/ entry.note # <<>>
  \/ entry.url # <<>>

(* The user edits the text of an entry within the bound *)
CanEdit(id) ==
  /\ inflight = <<>>
  /\ Cardinality({ entry \in Range(pointsOfInterest) \cup Range(placesToStay) :
                     Edited(entry) /\ entry.id # id }) < MaxEdited

(* The reply of the routing service that has a route for every pair *)
RoutesFound(request) ==
  [threw |-> FALSE, statusCode |-> 200,
   body |-> MatrixBody(request.points, request.profile, <<"none", 0, 0>>)]

(* The session with the editors of the entries: the profile stays the one  *)
(* the page starts with, every request is answered with all its routes,    *)
(* and the user saves an editor while no request is pending                *)
EditNext ==
  \/ \E c \in searchedLocation : AddPointOfInterest(c)
  \/ \E c \in searchedLocation : AddPlaceToStay(c)
  \/ \E id \in 1..Len(Itinerary), confirmed \in BOOLEAN : removePOI(id, confirmed)
  \/ \E id \in 1..Len(Itinerary), confirmed \in BOOLEAN : removePlaceToStay(id, confirmed)
  \/ \E m \in DistanceCalculationMode : setDistanceMode(m)
  \/ \E poi \in Range(pointsOfInterest) : cancelEditingPOI(poi.id)
  \/ \E place \in Range(placesToStay) : cancelEditingPlace(place.id)
  \/ \E poi \in Range(pointsOfInterest) : toggleEditingPOI(poi.id)
  \/ \E place \in Range(placesToStay) : toggleEditingPlace(place.id)
  \/ \E poi \in Range(pointsOfInterest), fields \in EditorTexts :
       CanEdit(poi.id) /\ savePOI(poi.id, fields)
  \/ \E place \in Range(placesToStay), fields \in EditorTexts :
       CanEdit(place.id) /\ savePlace(place.id, fields)
  \/ RecalculateEffect
  \/ \E i \in 1..Len(inflight) :
       ProviderReplies(i, RoutesFound(inflight[i].request))
  \/ ResumeCalculateDistances

EditSpec == Init /\ [][EditNext]_vars

(* The session with the selection of a place *)
SelectNext ==
  \/ Next
  \/ \E place \in Range(placesToStay) : selectPlaceToStay(place.id)

SelectSpec == Init /\ [][SelectNext]_vars

(* The state parameter of a link that the page did not write itself: a    *)
(* point of interest and a place to stay, and the profile "driving"        *)
ForeignLink ==
  << [base64 |->
        JsonStringify(AppState(<< NewPointOfInterest(1, Itinerary[1]) >>,
                               << NewPlaceToStay(2, Itinerary[2]) >>,
                               "cumulative", "driving", mapCenter, mapZoom))] >>

(* The addresses the page is opened at: without a state, or the link *)
Links == { <<>>, ForeignLink }

(* lines 93-100, 418-427 and 457-470: the page after it was opened at one  *)
(* of these addresses, its load effect and the save effect that follows;   *)
(* the ids of the entries of the address are 1, 2, ...                     *)
OpenedAt(addresses) ==
  /\ \E address \in addresses :
       /\ pointsOfInterest = LoadedState(address).pointsOfInterest
       /\ placesToStay = LoadedState(address).placesToStay
       /\ distanceMode = LoadedState(address).distanceMode
       /\ transportProfile = LoadedState(address).transportProfile
       /\ url = saveStateToURL(LoadedState(address).pointsOfInterest,
                               LoadedState(address).placesToStay,
                               LoadedState(address).distanceMode,
                               LoadedState(address).transportProfile,
                               mapCenter, mapZoom, address)
  /\ nextId = Len(pointsOfInterest) + Len(placesToStay) + 1
  /\ effectPending = TRUE
  /\ inflight = <<>>
  /\ requestCount = 0
  /\ delivered = <<>>
  /\ settled = <<>>
  /\ selectedPlaceToStay = Null
  /\ editingPOI = Null
  /\ editingPlace = Null

LinkInit == OpenedAt(Links)

(* The session of a page opened at one of the addresses *)
LinkSpec == LinkInit /\ [][Next]_vars

(* The texts of the url of an entry: none, a.io, http://a.io,              *)
(* https://a.io, http://, https://, http:/a.io, HTTP://a.io, ftp://a.io,   *)
(* and the letter h                                                        *)
UrlTexts ==
  { <<>>, Host, Http \o Host, Https \o Host, Http, Https,
    SubSeq(Http, 1, 6) \o Host, <<72, 84, 84, 80, 58, 47, 47>> \o Host,
    <<102, 116, 112, 58, 47, 47>> \o Host, <<104>> }

(* The state parameters of links to a page with one point of interest      *)
(* that has one of the texts as its url                                    *)
HrefLinks ==
  { << [base64 |->
          JsonStringify(AppState(
            << [NewPointOfInterest(1, Itinerary[1]) EXCEPT !.url = << text >>] >>,
            <<>>, "average", "walking", mapCenter, mapZoom))] >>
      : text \in UrlTexts }

(* The session of a page opened at one of these links *)
HrefSpec == OpenedAt(HrefLinks) /\ [][Next]_vars

(* An event of the user on the lists, the profile or the mode *)
UserStep ==
  \/ \E c \in searchedLocation : AddPointOfInterest(c)
  \/ \E c \in searchedLocation : AddPlaceToStay(c)
  \/ \E id \in 1..Len(Itinerary), confirmed \in BOOLEAN : removePOI(id, confirmed)
  \/ \E id \in 1..Len(Itinerary), confirmed \in BOOLEAN : removePlaceToStay(id, confirmed)
  \/ \E poi \in Range(pointsOfInterest) : updatePOI(poi.id, EditorOf(poi))
  \/ \E place \in Range(placesToStay) :
       updatePlaceToStay(place.id, EditorOf(place))
  \/ \E p \in TransportProfile : setTransportProfile(p)
  \/ \E m \in DistanceCalculationMode : setDistanceMode(m)

(* The session in which every request is answered with all its routes *)
SuccessNext ==
  \/ UserStep
  \/ RecalculateEffect
  \/ \E i \in 1..Len(inflight) :
       ProviderReplies(i, RoutesFound(inflight[i].request))
  \/ ResumeCalculateDistances

SuccessSpec == Init /\ [][SuccessNext]_vars

---------------------------------------------------------------------------
(* Properties *)

HasDerived(place) ==
  /\ place.averageDistance # Undefined
  /\ place.cumulativeDistance # Undefined
  /\ place.averageTime # Undefined
  /\ place.cumulativeTime # Undefined
  /\ place.distancesToPOIs # <<>>

(* The recalculation effect is the callback that runs in the next step *)
EffectRuns == effectPending

(* C1: when calculateDistances runs with no place to stay or no point of   *)
(* interest, it issues no request to the routing service and leaves the    *)
(* list of places, with every derived field, as it was.                    *)
C1_EmptyInputIsNoop ==
  [][(EffectRuns /\ (Len(placesToStay) = 0 \/ Len(pointsOfInterest) = 0))
       => /\ requestCount' = requestCount
          /\ inflight' = inflight
          /\ placesToStay' = placesToStay
          /\ pointsOfInterest' = pointsOfInterest]_vars

(* calculateDistances has just returned early: the last point of interest  *)
(* was removed, and a place keeps the aggregates of an earlier call        *)
C1_Witness ==
  /\ settled # <<>>
  /\ ~effectPending
  /\ delivered = <<>>
  /\ Len(pointsOfInterest) = 0
  /\ Len(placesToStay) > 0
  /\ HasDerived(placesToStay[1])
  /\ inflight = <<>>

ExpectedPoints ==
  [k \in 1..(Len(placesToStay) + Len(pointsOfInterest)) |->
    IF k <= Len(placesToStay)
      THEN << placesToStay[k].location.coordinates.lon,
              placesToStay[k].location.coordinates.lat >>
      ELSE << pointsOfInterest[k - Len(placesToStay)].location.coordinates.lon,
              pointsOfInterest[k - Len(placesToStay)].location.coordinates.lat >>]

(* C2: an aggregation over non-empty lists calls the routing service       *)
(* exactly once, with the coordinates of the places in list order followed *)
(* by those of the points of interest in list order, with the profile      *)
(* selected when it was triggered, asking for durations and distances; and *)
(* nothing else calls the service.                                         *)
C2_OneRequestPerAggregation ==
  [][/\ (EffectRuns /\ Len(placesToStay) > 0 /\ Len(pointsOfInterest) > 0)
          => /\ requestCount' = Counted(requestCount + 1)
             /\ Len(inflight') = Len(inflight) + 1
             /\ SubSeq(inflight', 1, Len(inflight)) = inflight
             /\ LET sent == inflight'[Len(inflight')].request
                IN /\ sent.points = ExpectedPoints
                   /\ sent.profile = transportProfile
                   /\ Len(sent.annotations) = 2
                   /\ Range(sent.annotations) = {"duration", "distance"}
     /\ (requestCount' # requestCount \/ Len(inflight') > Len(inflight))
          => (EffectRuns /\ Len(placesToStay) > 0 /\ Len(pointsOfInterest) > 0)
    ]_vars

(* A request for two places and a point of interest is pending, sent with  *)
(* a profile other than the initial one                                    *)
C2_Witness ==
  /\ inflight # <<>>
  /\ Len(inflight[Len(inflight)].places) = 2
  /\ Len(inflight[Len(inflight)].pois) = 1
  /\ inflight[Len(inflight)].request.profile = "cycling"
  /\ Len(inflight[Len(inflight)].request.points) = 3

(* The continuation of calculateDistances is the callback that runs in the *)
(* next step, and the routing service answered its request with status 200 *)
(* and both matrices                                                       *)
AggregationSucceeds ==
  /\ delivered # <<>>
  /\ ~delivered[1].response.threw
  /\ delivered[1].response.statusCode = 200
  /\ delivered[1].response.body.distances # <<>>
  /\ delivered[1].response.body.durations # <<>>

(* C3: on a successful aggregation over m places and n points of interest  *)
(* the entry distancesToPOIs[poi_j.id] of place i is computed from cell    *)
(* [i][m + j] of the two matrices, whatever the columns of the places      *)
(* hold; one place and two points of interest with the rows                *)
(* [0, 1000, 3000] and [0, 60, 180] give 0.621371 mi, 1 min and            *)
(* 1.864113 mi, 3 min.                                                     *)
C3_EntryFromTargetColumn ==
  [][AggregationSucceeds =>
      LET call == delivered[1].call
          body == delivered[1].response.body
          m == Len(call.places)
          n == Len(call.pois)
      IN /\ Len(placesToStay') = m
         /\ \A i \in 1..m : \A j \in 1..n :
              placesToStay'[i].distancesToPOIs[1][call.pois[j].id] =
                [distance |-> Miles(body.distances[i][m + j]),
                 duration |-> Minutes(body.durations[i][m + j])]
         /\ (/\ m = 1
             /\ n = 2
             /\ body.distances[1] = <<0, 1000, 3000>>
             /\ body.durations[1] = <<0, 60, 180>>)
              => placesToStay'[1].distancesToPOIs[1] =
                   (call.pois[1].id :> [distance |-> 621371, duration |-> 1000])
                     @@ (call.pois[2].id :>
                           [distance |-> 1864113, duration |-> 3000])
    ]_vars

(* The aggregation of the example has been applied: the place is 1000 m    *)
(* and 60 s from the first point of interest and 3000 m and 180 s from the *)
(* second, and 3000 m from itself in no column that was read               *)
C3_Witness ==
  /\ settled = << [promise |-> "fulfilled", consoleError |-> "none"] >>
  /\ Len(placesToStay) = 1
  /\ Len(pointsOfInterest) = 2
  /\ placesToStay[1].distancesToPOIs =
       << (pointsOfInterest[1].id :> [distance |-> 621371, duration |-> 1000])
            @@ (pointsOfInterest[2].id :>
                  [distance |-> 1864113, duration |-> 3000]) >>

RECURSIVE SumOfField(_, _, _)
SumOfField(entries, ids, field) ==
  IF ids = {} THEN 0
  ELSE LET id == CHOOSE x \in ids : TRUE
       IN entries[id][field] + SumOfField(entries, ids \ {id}, field)

(* C4: after a successful aggregation over n >= 1 points of interest, for  *)
(* every place cumulativeDistance is the sum of its n distances,           *)
(* cumulativeTime the sum of its n durations, and averageDistance * n and  *)
(* averageTime * n are the cumulative values, up to the rounding of one    *)
(* division.                                                               *)
C4_CumulativeAndAverage ==
  [][AggregationSucceeds =>
      LET n == Len(delivered[1].call.pois)
      IN \A i \in 1..Len(placesToStay') :
           LET place == placesToStay'[i]
               entries == place.distancesToPOIs[1]
           IN /\ n >= 1
              /\ Cardinality(DOMAIN entries) = n
              /\ place.cumulativeDistance =
                   SumOfField(entries, DOMAIN entries, "distance")
              /\ place.cumulativeTime =
                   SumOfField(entries, DOMAIN entries, "duration")
              /\ place.averageDistance * n <= place.cumulativeDistance
              /\ place.cumulativeDistance < (place.averageDistance + 1) * n
              /\ place.averageTime * n <= place.cumulativeTime
              /\ place.cumulativeTime < (place.averageTime + 1) * n
    ]_vars

(* A place has the aggregates of the example: 2.485484 mi and 4 min in     *)
(* all, 1.242742 mi and 2 min on average over two points of interest       *)
C4_Witness ==
  /\ settled = << [promise |-> "fulfilled", consoleError |-> "none"] >>
  /\ \E i \in 1..Len(placesToStay) :
       /\ placesToStay[i].distancesToPOIs # <<>>
       /\ Cardinality(DOMAIN placesToStay[i].distancesToPOIs[1]) = 2
       /\ placesToStay[i].cumulativeDistance = 2485484
       /\ placesToStay[i].averageDistance = 1242742
       /\ placesToStay[i].cumulativeTime = 4000
       /\ placesToStay[i].averageTime = 2000

(* C5: every stored distance is the cell in metres / 1000 * 0.621371, and  *)
(* every stored duration the cell in seconds / 60, to the last digit the   *)
(* model keeps (a micro-mile, a milli-minute): 1000 m is 0.621371 mi and   *)
(* 120 s is 2 min.                                                         *)
C5_UnitConversion ==
  [][AggregationSucceeds =>
      LET call == delivered[1].call
          body == delivered[1].response.body
          m == Len(call.places)
      IN \A i \in 1..m : \A j \in 1..Len(call.pois) :
           LET metres == body.distances[i][m + j]
               seconds == body.durations[i][m + j]
               entry == placesToStay'[i].distancesToPOIs[1][call.pois[j].id]
           IN /\ metres # Null =>
                   /\ entry.distance * 1000 <= metres * 621371
                   /\ metres * 621371 < (entry.distance + 1) * 1000
              /\ seconds # Null =>
                   /\ entry.duration * 60 <= seconds * 1000
                   /\ seconds * 1000 < (entry.duration + 1) * 60
              /\ metres = 1000 => entry.distance = 621371
              /\ seconds = 120 => entry.duration = 2000
    ]_vars

(* Entries computed from a cell of 1000 m and from a cell of 120 s are     *)
(* stored                                                                  *)
C5_Witness ==
  /\ settled = << [promise |-> "fulfilled", consoleError |-> "none"] >>
  /\ \E i \in 1..Len(placesToStay) :
       /\ placesToStay[i].distancesToPOIs # <<>>
       /\ \E a, b \in DOMAIN placesToStay[i].distancesToPOIs[1] :
            /\ placesToStay[i].distancesToPOIs[1][a].distance = 621371
            /\ placesToStay[i].distancesToPOIs[1][b].duration = 2000

(* The continuation of calculateDistances runs next, after the call of the *)
(* routing service threw or returned a status code other than 200          *)
ProviderFails ==
  /\ delivered # <<>>
  /\ \/ delivered[1].response.threw
     \/ delivered[1].response.statusCode # 200

(* C6: if the call of the routing service throws or returns a status code  *)
(* other than 200, the list of places keeps every derived field it had: no *)
(* place is overwritten, wholly or in part.                                *)
C6_FailureKeepsAggregates ==
  [][ProviderFails =>
       /\ placesToStay' = placesToStay
       /\ pointsOfInterest' = pointsOfInterest]_vars

(* A call has just ended in the catch clause, on status 500, while a place *)
(* held the aggregates of an earlier call                                  *)
C6_Witness ==
  /\ settled # <<>>
  /\ settled[1].consoleError = "HTTP error from MapBox! status"
  /\ requestCount = 2
  /\ \E i \in 1..Len(placesToStay) : HasDerived(placesToStay[i])

(* A cell that the continuation reads is null *)
ReadsNullCell ==
  /\ AggregationSucceeds
  /\ LET call == delivered[1].call
         body == delivered[1].response.body
         m == Len(call.places)
     IN \E i \in 1..m : \E j \in 1..Len(call.pois) :
          \/ body.distances[i][m + j] = Null
          \/ body.durations[i][m + j] = Null

(* C7: a null cell among the cells the aggregation reads makes the whole   *)
(* aggregation fail: no derived field of any place is updated, and no      *)
(* distance or duration of 0 is stored for the cell.                       *)
C7_NullCellFailsAggregation ==
  [][ReadsNullCell => placesToStay' = placesToStay]_vars

RankKey(place) ==
  IF distanceMode = "average"
    THEN (IF place.averageDistance = Undefined THEN 0
          ELSE place.averageDistance)
    ELSE (IF place.cumulativeDistance = Undefined THEN 0
          ELSE place.cumulativeDistance)

PositionOf(id, places) == CHOOSE k \in 1..Len(places) : places[k].id = id

(* C9: the places are displayed in ascending order of averageDistance in   *)
(* mode average and of cumulativeDistance otherwise, an absent value       *)
(* counting as 0; the displayed sequence holds the places of the list.     *)
C9_DisplayedAscending ==
  /\ Len(sortedPlacesToStay) = Len(placesToStay)
  /\ Range(sortedPlacesToStay) = Range(placesToStay)
  /\ \A i, j \in 1..Len(sortedPlacesToStay) :
       i < j => RankKey(sortedPlacesToStay[i]) <= RankKey(sortedPlacesToStay[j])

(* A place that was never aggregated is displayed ahead of an aggregated   *)
(* place that precedes it in the list                                      *)
C9_Witness ==
  /\ Len(placesToStay) = 2
  /\ placesToStay[1].averageDistance # Undefined
  /\ placesToStay[1].averageDistance > 0
  /\ placesToStay[2].averageDistance = Undefined
  /\ sortedPlacesToStay[1] = placesToStay[2]
  /\ sortedPlacesToStay[2] = placesToStay[1]

(* C10: places of equal key are displayed in the order they have in the    *)
(* list, and ranking the displayed sequence again in the same mode returns *)
(* it.                                                                     *)
C10_StableIdempotent ==
  /\ \A i, j \in 1..Len(sortedPlacesToStay) :
       (i < j /\ RankKey(sortedPlacesToStay[i]) = RankKey(sortedPlacesToStay[j]))
         => PositionOf(sortedPlacesToStay[i].id, placesToStay)
              < PositionOf(sortedPlacesToStay[j].id, placesToStay)
  /\ Sort(sortedPlacesToStay, distanceMode) = sortedPlacesToStay

(* Two aggregated places are equally far from the point of interest *)
C10_Witness ==
  /\ Len(placesToStay) >= 2
  /\ HasDerived(placesToStay[1])
  /\ HasDerived(placesToStay[2])
  /\ placesToStay[1].averageDistance > 0
  /\ RankKey(placesToStay[1]) = RankKey(placesToStay[2])

(* The ids of a list, in its order *)
Ids(list) == [k \in 1..Len(list) |-> list[k].id]

IsPermutation(s, t) ==
  /\ Len(s) = Len(t)
  /\ \A x \in Range(s) \cup Range(t) :
       Cardinality({ k \in 1..Len(s) : s[k] = x })
         = Cardinality({ k \in 1..Len(t) : t[k] = x })

(* C11: ranking is total and pure: in either mode it returns a permutation *)
(* of the stored list of places, and it leaves the stored list as it is:   *)
(* the same places with the same fields, in the order of their insertion   *)
(* (ids are given out in increasing order).                                *)
C11_RankIsPure ==
  /\ \A mode \in DistanceCalculationMode :
       /\ IsPermutation(PlacesToStayDisplay(placesToStay, mode).displayed,
                        placesToStay)
       /\ PlacesToStayDisplay(placesToStay, mode).stored = placesToStay
  /\ \A i, j \in 1..Len(placesToStay) :
       i < j => placesToStay[i].id < placesToStay[j].id

(* Two aggregated places are displayed in the reverse of their order in    *)
(* the list: the place added first is the farther one                      *)
C11_Witness ==
  /\ Len(placesToStay) = 2
  /\ HasDerived(placesToStay[1])
  /\ HasDerived(placesToStay[2])
  /\ placesToStay[1].id < placesToStay[2].id
  /\ Ids(sortedPlacesToStay) = << placesToStay[2].id, placesToStay[1].id >>

(* C12: a change of distanceMode changes nothing else: both lists, with    *)
(* every derived field of every place, and the transport profile are as    *)
(* before, the recalculation effect is not scheduled and no request is     *)
(* sent to the routing service.                                            *)
C12_ModeChangesOnlyOrder ==
  [][distanceMode' # distanceMode =>
       UNCHANGED <<pointsOfInterest, placesToStay, transportProfile,
                   effectPending, inflight, requestCount>>]_vars

(* The mode was changed while a request was pending and a place had        *)
(* aggregates: the places are now ordered by cumulativeDistance            *)
C12_Witness ==
  /\ distanceMode = "cumulative"
  /\ inflight # <<>>
  /\ ~effectPending
  /\ Len(placesToStay) = 2
  /\ HasDerived(placesToStay[1])
  /\ settled = <<>>

(* The step is an event of the user, not the continuation of a call of     *)
(* calculateDistances                                                      *)
UserEvent == ~effectPending /\ delivered = <<>>

C14_LastResponseWins ==
  [][/\ (delivered' = <<>>) =>
          /\ Len(inflight') >= Len(inflight)
          /\ SubSeq(inflight', 1, Len(inflight)) = inflight
     /\ (delivered' # <<>>) =>
          /\ delivered = <<>>
          /\ \E i \in 1..Len(inflight) :
               /\ delivered'[1].call = inflight[i]
               /\ inflight' = RemoveAt(inflight, i)
     /\ AggregationSucceeds =>
          LET call == delivered[1].call
              body == delivered[1].response.body
              m == Len(call.places)
          IN /\ Ids(placesToStay') = Ids(call.places)
             /\ \A i \in 1..m :
                  /\ placesToStay'[i].distancesToPOIs # <<>>
                  /\ DOMAIN placesToStay'[i].distancesToPOIs[1]
                       = Range(Ids(call.pois))
                  /\ \A j \in 1..Len(call.pois) :
                       placesToStay'[i].distancesToPOIs[1][call.pois[j].id] =
                         [distance |-> Miles(body.distances[i][m + j]),
                          duration |-> Minutes(body.durations[i][m + j])]
    ]_vars

(* Two aggregations overlapped, the first for walking and the second for   *)
(* cycling; the answer to the first arrived last, so the place is shown    *)
(* 3000 m and 3 min (on foot) from the point of interest while the profile *)
(* is cycling, and nothing is pending                                      *)
C14_Witness ==
  /\ transportProfile = "cycling"
  /\ inflight = <<>>
  /\ requestCount = 2
  /\ settled = << [promise |-> "fulfilled", consoleError |-> "none"] >>
  /\ Len(placesToStay) = 1
  /\ Len(pointsOfInterest) = 1
  /\ placesToStay[1].cumulativeDistance = 1864113
  /\ placesToStay[1].cumulativeTime = 3000

(* C15: after a successful aggregation the keys of distancesToPOIs of      *)
(* every place are exactly the ids of the points of interest that were in  *)
(* the list when the request of that aggregation was built: none is        *)
(* missing, and none is left from an earlier aggregation.                  *)
C15_KeysAreRequestPois ==
  [][AggregationSucceeds =>
       \A i \in 1..Len(placesToStay') :
         /\ placesToStay'[i].distancesToPOIs # <<>>
         /\ DOMAIN placesToStay'[i].distancesToPOIs[1]
              = Range(Ids(delivered[1].call.pois))]_vars

(* A place that was aggregated against point of interest 1 has, after that *)
(* point was removed and point 3 added, an entry for point 3 alone         *)
C15_Witness ==
  /\ settled = << [promise |-> "fulfilled", consoleError |-> "none"] >>
  /\ Ids(pointsOfInterest) = <<3>>
  /\ Ids(placesToStay) = <<2>>
  /\ placesToStay[1].distancesToPOIs # <<>>
  /\ DOMAIN placesToStay[1].distancesToPOIs[1] = {3}
  /\ requestCount = 2

(* The sum of f over the points of interest of row i of a matrix *)
RowTotal(matrix, i, m, n, f(_)) ==
  SumOver([j \in 1..n |-> f(matrix[i][m + j])], 1..n)

(* C16: a successful aggregation gives every place of the list all four    *)
(* derived scalars and the whole map anew, computed from its answer alone: *)
(* no place keeps a value it had before, and no place is left out.         *)
C16_FullReplace ==
  [][AggregationSucceeds =>
      LET call == delivered[1].call
          body == delivered[1].response.body
          m == Len(call.places)
          n == Len(call.pois)
      IN /\ Len(placesToStay') = m
         /\ \A i \in 1..m :
              LET place == placesToStay'[i]
              IN /\ place.cumulativeDistance
                      = RowTotal(body.distances, i, m, n, Miles)
                 /\ place.cumulativeTime
                      = RowTotal(body.durations, i, m, n, Minutes)
                 /\ place.averageDistance
                      = RowTotal(body.distances, i, m, n, Miles) \div n
                 /\ place.averageTime
                      = RowTotal(body.durations, i, m, n, Minutes) \div n
                 /\ place.distancesToPOIs =
                      << [id \in Range(Ids(call.pois)) |->
                           LET j == CHOOSE k \in 1..n : call.pois[k].id = id
                           IN [distance |-> Miles(body.distances[i][m + j]),
                               duration |-> Minutes(body.durations[i][m + j])]] >>
    ]_vars

(* Both places of the list have the aggregates of an answer for cycling,   *)
(* the second request of the run: 3000 m in 2 min and 1000 m in 2/3 min    *)
C16_Witness ==
  /\ settled = << [promise |-> "fulfilled", consoleError |-> "none"] >>
  /\ requestCount = 2
  /\ transportProfile = "cycling"
  /\ Len(placesToStay) = 2
  /\ Len(pointsOfInterest) = 1
  /\ placesToStay[1].cumulativeTime = 2000
  /\ placesToStay[2].cumulativeTime = 666
  /\ placesToStay[1].averageDistance = 1864113
  /\ placesToStay[2].averageDistance = 621371

(* What the load effect of lines 418-427 sets from the address: the four   *)
(* states, or nothing when the address holds no state                      *)
LoadedFromURL ==
  LET urlState == decodeStateFromURL(url)
  IN IF urlState = <<>> THEN <<>>
     ELSE << [pointsOfInterest |-> urlState[1].pointsOfInterest,
              placesToStay |-> urlState[1].placesToStay,
              distanceMode |-> urlState[1].distanceMode,
              transportProfile |-> urlState[1].transportProfile] >>

(* C17: the state of the application goes through the address of the page  *)
(* without loss: after every render and its save effect, decoding the      *)
(* address gives the points of interest, the places with every derived     *)
(* field, the mode and the profile that the component holds.               *)
C17_UrlRoundTrip ==
  LoadedFromURL =
    << [pointsOfInterest |-> pointsOfInterest,
        placesToStay |-> placesToStay,
        distanceMode |-> distanceMode,
        transportProfile |-> transportProfile] >>

(* A call of calculateDistances has just ended in its catch clause *)
JustFailed == settled # <<>> /\ settled[1].consoleError # "none"

(* C18: a failed aggregation stops nothing.  Always, right after one, the  *)
(* mode can be changed and every entry edited, and, while the user has     *)
(* changes left to make, a place or a point of interest can be added,      *)
(* every entry can be removed and every other profile selected; and if     *)
(* both lists are non-empty, the aggregation that another profile starts   *)
(* can be answered so that it gives every place its derived fields.        *)
C18_FailureIsNotFatal ==
  [](JustFailed =>
      /\ \A m \in DistanceCalculationMode \ {distanceMode} :
           ENABLED setDistanceMode(m)
      /\ \A poi \in Range(pointsOfInterest) :
           ENABLED updatePOI(poi.id, EditorOf(poi))
      /\ \A place \in Range(placesToStay) :
           ENABLED updatePlaceToStay(place.id, EditorOf(place))
      /\ requestCount < MaxRequests =>
           /\ \A location \in searchedLocation :
                /\ ENABLED AddPointOfInterest(location)
                /\ ENABLED AddPlaceToStay(location)
           /\ \A poi \in Range(pointsOfInterest) : ENABLED removePOI(poi.id, TRUE)
           /\ \A place \in Range(placesToStay) :
                ENABLED removePlaceToStay(place.id, TRUE)
           /\ \A profile \in TransportProfile \ {transportProfile} :
                /\ ENABLED setTransportProfile(profile)
                /\ (Len(placesToStay) > 0 /\ Len(pointsOfInterest) > 0) =>
                     LET call ==
                           [places |-> placesToStay,
                            pois |-> pointsOfInterest,
                            request |-> MatrixRequest(
                              allLocations(placesToStay, pointsOfInterest),
                              profile)]
                     IN \E response \in Responses(call.request) :
                          LET completion == Completion(call, response)
                          IN /\ completion.consoleError = "none"
                             /\ completion.setPlacesToStay # <<>>
                             /\ \A i \in 1..Len(placesToStay) :
                                  HasDerived(completion.setPlacesToStay[1][i]))

(* The first aggregation of the run has just failed on status 500: the     *)
(* place has no derived field, and the user has a change left to make      *)
C18_Witness ==
  /\ JustFailed
  /\ settled[1].consoleError = "HTTP error from MapBox! status"
  /\ requestCount = 1
  /\ inflight = <<>>
  /\ Len(placesToStay) = 1
  /\ Len(pointsOfInterest) = 1
  /\ ~HasDerived(placesToStay[1])
  /\ searchedLocation # {}

(* C19: the application of an answer changes derived fields only: the ids  *)
(* of the places of the list, in their order, and the name and the         *)
(* location of every place are the same after the step as before it,       *)
(* whatever the user did while the request was pending.                    *)
C19_ResponseKeepsEntries ==
  [][AggregationSucceeds =>
       /\ Ids(placesToStay') = Ids(placesToStay)
       /\ \A i \in 1..Len(placesToStay) :
            /\ placesToStay'[i].name = placesToStay[i].name
            /\ placesToStay'[i].location = placesToStay[i].location]_vars

(* Nothing is pending: no effect, no request, no continuation *)
Quiescent == ~effectPending /\ inflight = <<>> /\ delivered = <<>>

(* C20: once the events of the user have stopped, the component comes to   *)
(* rest: from some point on no request is pending and none is sent, in     *)
(* whatever order the pending requests are answered.                       *)
C20_Quiesces == (<>[][SystemStep]_vars) => <>[]Quiescent

(* What an aggregation of the lists as they are, with the profile that is *)
(* selected, gives the place at this position                              *)
CurrentAggregate(i) ==
  UpdatedPlace(placesToStay[i], i, placesToStay, pointsOfInterest,
               RoutesFound(MatrixRequest(
                 allLocations(placesToStay, pointsOfInterest),
                 transportProfile)).body)

(* C21: when nothing is pending any more and every request was answered    *)
(* with all its routes, and both lists are non-empty, every place has an   *)
(* entry in distancesToPOIs for exactly the points of interest of the      *)
(* list, computed with the profile that is selected.                       *)
C21_SettledIsCurrent ==
  (Quiescent /\ Len(placesToStay) > 0 /\ Len(pointsOfInterest) > 0)
    => \A i \in 1..Len(placesToStay) :
         /\ placesToStay[i].distancesToPOIs # <<>>
         /\ DOMAIN placesToStay[i].distancesToPOIs[1]
              = Range(Ids(pointsOfInterest))
         /\ placesToStay[i].distancesToPOIs
              = CurrentAggregate(i).distancesToPOIs

(* The continuation of calculateDistances runs next and ends in the catch  *)
(* clause                                                                  *)
AggregationFails ==
  /\ delivered # <<>>
  /\ ThrownError(delivered[1].call, delivered[1].response) # "none"

(* C22: nothing is retried.  The step in which a call fails sends no       *)
(* request and schedules none; a request is only ever sent by the          *)
(* recalculation effect, and the effect is only ever scheduled by a step   *)
(* that changes the list of places, the list of points of interest or the  *)
(* profile.                                                                *)
C22_NoRetry ==
  [][/\ AggregationFails =>
          /\ ~effectPending'
          /\ inflight' = inflight
          /\ requestCount' = requestCount
     /\ (Len(inflight') > Len(inflight) \/ requestCount' # requestCount)
          => EffectRuns
     /\ (~effectPending /\ effectPending') =>
          \/ placesToStay' # placesToStay
          \/ pointsOfInterest' # pointsOfInterest
          \/ transportProfile' # transportProfile
    ]_vars

(* The only call of the run has failed on a reply without matrices, both   *)
(* lists are non-empty, and nothing is pending or scheduled                *)
C22_Witness ==
  /\ JustFailed
  /\ settled[1].consoleError = "TypeError"
  /\ requestCount = 1
  /\ Quiescent
  /\ Len(placesToStay) > 0
  /\ Len(pointsOfInterest) > 0

(* No two entries of the list have the same id *)
DistinctIds(list) ==
  \A i, j \in 1..Len(list) : list[i].id = list[j].id => i = j

(* The ids the component holds: in its lists and in the lists that the     *)
(* pending calls captured                                                  *)
IdsInUse ==
  Range(Ids(pointsOfInterest)) \cup Range(Ids(placesToStay))
    \cup UNION { Range(Ids(inflight[k].pois)) \cup Range(Ids(inflight[k].places))
                   : k \in 1..Len(inflight) }

NoDerived(place) ==
  /\ place.averageDistance = Undefined
  /\ place.cumulativeDistance = Undefined
  /\ place.averageTime = Undefined
  /\ place.cumulativeTime = Undefined
  /\ place.distancesToPOIs = <<>>

(* C23: a step that adds an entry, from the search box or from a click on  *)
(* the map, appends one entry to one of the two lists: the entry has an id *)
(* that is not in use, a place has no derived field, the entries that were *)
(* in the list are unchanged and in their order, and the other list is     *)
(* unchanged.  In every state the ids of each list are pairwise distinct.  *)
C23_AddAppendsOne ==
  /\ [](DistinctIds(pointsOfInterest) /\ DistinctIds(placesToStay))
  /\ [][nextId' # nextId =>
         \/ /\ Len(pointsOfInterest') = Len(pointsOfInterest) + 1
            /\ SubSeq(pointsOfInterest', 1, Len(pointsOfInterest))
                 = pointsOfInterest
            /\ pointsOfInterest'[Len(pointsOfInterest')].id \notin IdsInUse
            /\ placesToStay' = placesToStay
         \/ /\ Len(placesToStay') = Len(placesToStay) + 1
            /\ SubSeq(placesToStay', 1, Len(placesToStay)) = placesToStay
            /\ placesToStay'[Len(placesToStay')].id \notin IdsInUse
            /\ NoDerived(placesToStay'[Len(placesToStay')])
            /\ pointsOfInterest' = pointsOfInterest]_vars

(* A place added by a click on the map follows an aggregated place that    *)
(* was added from the search box                                           *)
C23_Witness ==
  /\ Len(placesToStay) = 2
  /\ HasDerived(placesToStay[1])
  /\ placesToStay[1].name = placesToStay[1].location.placeName
  /\ placesToStay[2].name = <<321, 243, 100, 378>>
  /\ NoDerived(placesToStay[2])
  /\ Len(pointsOfInterest) = 1

(* The list without its entry of this id, which it has once *)
Without(list, id) ==
  LET k == CHOOSE i \in 1..Len(list) : list[i].id = id
  IN SubSeq(list, 1, k - 1) \o SubSeq(list, k + 1, Len(list))

(* C24: a removal that the user declines to confirm changes nothing.  A    *)
(* removal that is confirmed takes the entry of the given id out of its    *)
(* list: the other entries of the list are as they were, in the order they *)
(* had, and the other list is unchanged.                                   *)
C24_RemovalIsExplicit ==
  [][\A id \in 1..Len(Itinerary) :
       /\ removePOI(id, FALSE) => UNCHANGED vars
       /\ removePlaceToStay(id, FALSE) => UNCHANGED vars
       /\ removePOI(id, TRUE) =>
            /\ Cardinality({ i \in 1..Len(pointsOfInterest) :
                               pointsOfInterest[i].id = id }) = 1
            /\ pointsOfInterest' = Without(pointsOfInterest, id)
            /\ placesToStay' = placesToStay
       /\ removePlaceToStay(id, TRUE) =>
            /\ Cardinality({ i \in 1..Len(placesToStay) :
                               placesToStay[i].id = id }) = 1
            /\ placesToStay' = Without(placesToStay, id)
            /\ pointsOfInterest' = pointsOfInterest]_vars

(* The second of three places has just been removed: the recalculation   *)
(* effect is scheduled                                                     *)
C24_Witness ==
  /\ Ids(placesToStay) = <<1, 3>>
  /\ nextId = 4
  /\ settled = <<>>
  /\ effectPending

(* The list is as it was but for the name, the note and the url of the     *)
(* entry of this id, which are those the editor holds: an empty name field *)
(* keeps the name, an empty note or url field leaves none                  *)
OnlyTextEdited(before, after, id, fields) ==
  /\ Len(after) = Len(before)
  /\ \A i \in 1..Len(before) :
       IF before[i].id # id
         THEN after[i] = before[i]
         ELSE /\ \A key \in DOMAIN before[i] \ {"name", "note", "url"} :
                   after[i][key] = before[i][key]
              /\ DOMAIN after[i] = DOMAIN before[i]
              /\ after[i].name =
                   (IF fields.name = <<>> THEN before[i].name ELSE fields.name)
              /\ after[i].note =
                   (IF fields.note = <<>> THEN <<>> ELSE << fields.note >>)
              /\ after[i].url =
                   (IF fields.url = <<>> THEN <<>> ELSE << fields.url >>)

(* C25: the Save button of an editor changes the name, the note and the    *)
(* url of the entry it edits and nothing else: the id, the location and    *)
(* the position of the entry and, for a place, its five derived fields are *)
(* as before, every other entry of both lists is unchanged, no request is  *)
(* sent and no recalculation is scheduled.                                 *)
C25_EditChangesTextOnly ==
  [][\A id \in 1..Len(Itinerary), fields \in EditorTexts :
       /\ savePOI(id, fields) =>
            /\ OnlyTextEdited(pointsOfInterest, pointsOfInterest', id, fields)
            /\ placesToStay' = placesToStay
            /\ UNCHANGED <<inflight, requestCount, effectPending>>
            /\ ~effectPending'
       /\ savePlace(id, fields) =>
            /\ OnlyTextEdited(placesToStay, placesToStay', id, fields)
            /\ pointsOfInterest' = pointsOfInterest
            /\ UNCHANGED <<inflight, requestCount, effectPending>>
            /\ ~effectPending']_vars

(* The second of two aggregated places was given the name Spa, a note and  *)
(* a url, and its editor is closed; the first has the text it was added    *)
(* with                                                                    *)
C25_Witness ==
  /\ Len(placesToStay) = 2
  /\ HasDerived(placesToStay[1])
  /\ HasDerived(placesToStay[2])
  /\ ~Edited(placesToStay[1])
  /\ placesToStay[2].name = <<83, 112, 97>>
  /\ placesToStay[2].note = << <<111, 107>> >>
  /\ placesToStay[2].url = << Host >>
  /\ editingPlace = Null
  /\ settled = <<>>

(* C26: the selection is never dangling: selectedPlaceToStay is null or   *)
(* the id of a place of the list, whatever the order of selections,        *)
(* removals and answers of the routing service.                            *)
C26_SelectionIsInList ==
  \/ selectedPlaceToStay = Null
  \/ selectedPlaceToStay \in Range(Ids(placesToStay))

(* An editor is open *)
Editing == editingPOI # Null \/ editingPlace # Null

(* The state parameter that holds the state of the component as it is *)
CurrentUrl ==
  << [base64 |->
        JsonStringify(AppState(pointsOfInterest, placesToStay, distanceMode,
                               transportProfile, mapCenter, mapZoom))] >>

(* C27: a render in which an editor is open leaves the state parameter of  *)
(* the address as it is; the render in which the last open editor is       *)
(* closed writes the state the component then has into it: both lists, the *)
(* mode, the profile and the centre and zoom of the map (the centre is     *)
(* set, so there is a state to write).                                     *)
C27_UrlFollowsEditing ==
  [][/\ Editing' => url' = url
     /\ (Editing /\ ~Editing') => url' = CurrentUrl']_vars

(* C28: the profile is always one of walking, driving-traffic and cycling  *)
(* and the mode one of average and cumulative, also in a page opened from  *)
(* a link, and every request to the routing service is sent with one of    *)
(* the three profiles.                                                     *)
C28_ProfileAndModeAreValid ==
  /\ transportProfile \in TransportProfile
  /\ distanceMode \in DistanceCalculationMode
  /\ \A k \in 1..Len(inflight) :
       inflight[k].request.profile \in TransportProfile

(* C29: the derived fields of a place come and go together: in every      *)
(* state of a session that starts with empty lists, each place has all of  *)
(* averageDistance, cumulativeDistance, averageTime, cumulativeTime and    *)
(* distancesToPOIs, or none of them.                                       *)
C29_DerivedAllOrNothing ==
  \A i \in 1..Len(placesToStay) :
    HasDerived(placesToStay[i]) \/ NoDerived(placesToStay[i])

(* The first place has been aggregated and has the five derived fields;   *)
(* the second, added after that, has none, and its request is pending      *)
C29_Witness ==
  /\ Len(placesToStay) = 2
  /\ HasDerived(placesToStay[1])
  /\ NoDerived(placesToStay[2])
  /\ Len(inflight) = 1
  /\ Len(inflight[1].places) = 2

(* The entries of both lists *)
Entries == Range(pointsOfInterest) \cup Range(placesToStay)

(* C30: ensureHttpsProtocol returns an empty text, and a text that starts  *)
(* with http:// or https://, as it is, and any other text with https://    *)
(* before it; applying it to its result returns the result, and a result   *)
(* that is not empty starts with http:// or https://.  Stated of the url   *)
(* of every entry, and of the href of the link the entry is shown with.    *)
C30_EnsureHttpsProtocol ==
  \A entry \in Entries :
    entry.url # <<>> =>
      LET urlText == entry.url[1]
          result == ensureHttpsProtocol(urlText)
      IN /\ (\/ urlText = <<>>
             \/ StartsWith(urlText, Http)
             \/ StartsWith(urlText, Https)) => result = urlText
         /\ ~(\/ urlText = <<>>
              \/ StartsWith(urlText, Http)
              \/ StartsWith(urlText, Https)) => result = Https \o urlText
         /\ ensureHttpsProtocol(result) = result
         /\ result # <<>> =>
              StartsWith(result, Http) \/ StartsWith(result, Https)
         /\ urlText # <<>> => Href(entry) = << result >>

(* The point of interest of the link has the url http:/a.io, with one      *)
(* slash, and is shown with the href https://http:/a.io; a place was added *)
(* and aggregated                                                          *)
C30_Witness ==
  /\ Len(pointsOfInterest) = 1
  /\ pointsOfInterest[1].url = << SubSeq(Http, 1, 6) \o Host >>
  /\ Href(pointsOfInterest[1]) = << Https \o SubSeq(Http, 1, 6) \o Host >>
  /\ Len(placesToStay) = 1
  /\ HasDerived(placesToStay[1])

====
